---- MODULE Spec2Model ----
(***************************************************************************)
(* A model of the background task layer of AmbiDream (src/tracker):        *)
(* the reminder tasks, the statistics tasks, the calendar sync task and    *)
(* SleepSession.save, over the rows of the store they read and write.      *)
(*                                                                         *)
(* Time is counted in minutes since 00:00 of a Monday (day 0), in UTC      *)
(* (settings.py: TIME_ZONE = 'UTC', USE_TZ = True).  Decimal columns with   *)
(* two decimal places are counted in hundredths.  A nullable column holds  *)
(* None (the empty sequence) or Some(v) (a one-element sequence).          *)
(*                                                                         *)
(* The ORM lookups of tasks.py that are spelled with a single underscore   *)
(* (reminder_time_hour, reminder_time_minute) are modelled as the field    *)
(* lookups reminder_time__hour and reminder_time__minute they stand for.   *)
(* The entry of the defaults dictionary spelled with ';' at tasks.py:213   *)
(* is modelled as the 'total_sleep_hours': total_hours entry it stands     *)
(* for.                                                                    *)
(***************************************************************************)
EXTENDS Integers, Sequences, FiniteSets, TLC

VARIABLES
    now,        \* timezone.now(), in minutes
    profile,    \* UserProfile rows, by user
    reminders,  \* SleepReminder rows, by primary key
    sessions,   \* SleepSession rows, by primary key (None: no such row)
    lastRun,    \* what the reminder task run of the last step did
    stats,      \* SleepStatistics rows, in the order of their primary keys
    statRun,    \* what the statistics task run of the last step did
    workers,    \* the statistics tasks that run step by step, side by side
    remote,     \* the events of the remote calendar
    syncRun,    \* what the sync_sleep_to_calendar run of the last step did
    syncers,    \* the sync_sleep_to_calendar tasks that run step by step, side by side
    reportRun   \* what the last run of send_weekly_reports did

vars == <<now, profile, reminders, sessions, lastRun, stats, statRun, workers,
          remote, syncRun, syncers, reportRun>>
remVars == <<reminders, lastRun, reportRun>>
statVars == <<stats, statRun, workers>>
syncVars == <<remote, syncRun, syncers>>

----------------------------------------------------------------------------
(* Bounds *)

MaxDay == 2          \* reminder ticks run on days 1..MaxDay
NumSessions == 3     \* SleepSession primary keys
MaxLogged == 1       \* sessions logged while the reminder tasks run
MaxStatDay == 7      \* the statistics tasks run on days 6..MaxStatDay
MaxRacing == 2       \* sessions logged while two statistics tasks run side by side
MaxSynced == 1       \* sessions logged while the calendar sync runs
MaxEdited == 2       \* sessions logged while sessions and rows are edited
MaxWeekDay == 13     \* the weekly task runs on the days 0..MaxWeekDay
MaxWeekLogged == 2   \* sessions logged over these days
MaxRecovered == 3    \* sessions logged around a statistics run that stops part-way

Users == {"u1", "u2"}
Rids == {1, 2}         \* the SleepReminder rows: one of each user
Sids == 1..NumSessions

----------------------------------------------------------------------------
(* Nullable values, dates and times *)

None == <<>>
Some(v) == <<v>>
Val(o) == o[1]

MinutesPerHour == 60 * 1
MinutesPerDay == 24 * MinutesPerHour

DateOf(t) == t \div MinutesPerDay
HourOf(t) == (t % MinutesPerDay) \div MinutesPerHour
MinuteOf(t) == t % MinutesPerHour
At(day, hour, minute) == day * MinutesPerDay + hour * MinutesPerHour + minute

\* The times of day reminders are set to, and the instants at which the periodic
\* trigger runs the reminder tasks: 22:00 of every day, and 22:01 of day 1.
ReminderTimes == {At(0, 22, 0), At(0, 22, 1)}
Ticks == {At(d, 22, 0) : d \in 1..MaxDay} \cup {At(1, 22, 1)}

ReminderTypes == {"bedtime", "wake", "log"}

\* All orders in which a query without ORDER BY may return the rows S.
Orders(S) ==
    {f \in [1..Cardinality(S) -> S] : \A i, j \in 1..Cardinality(S) : f[i] = f[j] => i = j}

----------------------------------------------------------------------------
(* SleepSession.save *)

\* round(n / d, 0) for d > 0: the nearest integer, a tie going to the even one.
RoundDiv(n, d) ==
    LET q == n \div d
        r == n % d
    IN  IF 2 * r < d THEN q
        ELSE IF 2 * r > d THEN q + 1
        ELSE IF q % 2 = 0 THEN q ELSE q + 1

\* round(duration.total_seconds() / 3600, 2), in hundredths of an hour.
DurationHours(sleep_time, wake_time) ==
    RoundDiv(100 * (wake_time - sleep_time), MinutesPerHour)

\* save() that computes the duration only when the instance carries none.
SaveSession_KeepGiven(row) ==
    IF row.duration_hours # None THEN row
    ELSE [row EXCEPT !.duration_hours = Some(DurationHours(row.sleep_time, row.wake_time))]

\* save(): the duration is computed from the two timestamps of the instance,
\* whatever duration the instance carried.
SaveSession(row) ==
    [row EXCEPT !.duration_hours = Some(DurationHours(row.sleep_time, row.wake_time))]

NewSession(u, sleep_time, wake_time, quality, duration) ==
    [user |-> u, sleep_time |-> sleep_time, wake_time |-> wake_time,
     quality_rating |-> quality, duration_hours |-> duration,
     synced_to_calendar |-> FALSE, calendar_event_id |-> None]

\* The primary keys that were never given out: the key of a deleted row is not
\* given out again as long as a remote event was made for it.
UsedSids == {s \in Sids : sessions[s] # None \/ \E e \in remote : e.sid = s}
FreeSids == {s \in Sids : \A t \in UsedSids : t < s}
NextSid == CHOOSE s \in FreeSids : \A t \in FreeSids : s <= t

----------------------------------------------------------------------------
(* The tasks at rest *)

Workers == {"w1", "w2"}

NoValues ==
    [total_sleep_hours |-> 0, average_sleep_hours |-> 0, average_quality |-> None,
     sessions_count |-> 0]

IdleWorker ==
    [pc |-> "idle", task |-> "none", today |-> 0, users |-> <<>>,
     defaults |-> NoValues, wrote |-> None]

\* `before` is the table as the run found it.
NoStatRun ==
    [task |-> "none", status |-> "none", stats_created |-> 0, again |-> FALSE,
     before |-> <<>>]

\* `reports` holds, by user, the statistics of the report that was handed to the
\* dispatcher for that user.
NoReportRun ==
    [status |-> "none", today |-> 0, week_start |-> 0,
     reports |-> [u \in Users |-> None], sent_count |-> 0]

StatIdle ==
    /\ reportRun = NoReportRun
    /\ stats = <<>>
    /\ statRun = NoStatRun
    /\ workers = [w \in Workers |-> IdleWorker]

NoCall == [kind |-> "none", event_id |-> None]

NoSyncRun ==
    [sid |-> 0, status |-> "none", message |-> "none", event_id |-> None,
     call |-> NoCall, failure |-> "none", before |-> None]

IdleSyncer == [pc |-> "idle", sid |-> 0, row |-> None, event_id |-> None]

SyncIdle ==
    /\ remote = {}
    /\ syncRun = NoSyncRun
    /\ syncers = [w \in Workers |-> IdleSyncer]

----------------------------------------------------------------------------
(* The reminder tasks *)

NoRun ==
    [task |-> "none", status |-> "none", disp |-> [r \in Rids |-> "none"],
     sent_count |-> 0]

\* ReminderFilter without is_active=True.
ReminderFilter_NoActive(kind) ==
    {r \in Rids :
        /\ reminders[r].reminder_type = kind
        /\ HourOf(reminders[r].reminder_time) = HourOf(now)
        /\ MinuteOf(reminders[r].reminder_time) = MinuteOf(now)}

\* SleepReminder.objects.filter(reminder_type=kind, is_active=True,
\*     reminder_time__hour=current_time.hour, reminder_time__minute=current_time.minute)
ReminderFilter(kind) ==
    {r \in Rids :
        /\ reminders[r].reminder_type = kind
        /\ reminders[r].is_active
        /\ HourOf(reminders[r].reminder_time) = HourOf(now)
        /\ MinuteOf(reminders[r].reminder_time) = MinuteOf(now)}

\* HasLogged without user=u.
HasLogged_AnyUser(u, day) ==
    \E s \in Sids : /\ sessions[s] # None
                    /\ DateOf(Val(sessions[s]).sleep_time) = day

\* SleepSession.objects.filter(user=u, sleep_time__date=day).exists()
HasLogged(u, day) ==
    \E s \in Sids : /\ sessions[s] # None
                    /\ Val(sessions[s]).user = u
                    /\ DateOf(Val(sessions[s]).sleep_time) = day

\* The locals of a run: the rows as saved so far, what was dispatched for each
\* reminder, the local variable `result` (None while unbound), sent_count, and
\* how the run ended ("returned", or the exception that ended it).
StartRun ==
    [rem |-> reminders, disp |-> [r \in Rids |-> "none"], result |-> None,
     sent_count |-> 0, status |-> "returned"]

\* EmailNotificationService.send_*: _send_email returns email.send(), the number
\* of messages sent, and 0 when sending raised.
Dispatch(st, r, sent) ==
    [st EXCEPT !.result = Some(sent[r]),
               !.disp[r] = IF sent[r] # 0 THEN "sent" ELSE "failed"]

\* reminder.last_sent = timezone.now(); reminder.save(); sent_count += 1
MarkSent(st, r) ==
    [st EXCEPT !.rem[r].last_sent = Some(now), !.sent_count = @ + 1]

\* One iteration of the loop of send_bedtime_reminders: `if result:` is at the
\* level of the `if reminder.user.profile.notification_enabled:` above it.
BedtimeStep(st, r, sent) ==
    LET u == st.rem[r].user IN
    IF ~profile[u].exists
    THEN [st EXCEPT !.status = "RelatedObjectDoesNotExist"]
    ELSE LET s1 == IF profile[u].notification_enabled THEN Dispatch(st, r, sent) ELSE st
         IN  IF s1.result = None
             THEN [s1 EXCEPT !.status = "UnboundLocalError"]
             ELSE IF Val(s1.result) # 0 THEN MarkSent(s1, r) ELSE s1

\* One iteration of the loop of send_wake_reminders.
WakeStep(st, r, sent) ==
    LET u == st.rem[r].user IN
    IF ~profile[u].exists
    THEN [st EXCEPT !.status = "RelatedObjectDoesNotExist"]
    ELSE IF ~profile[u].notification_enabled THEN st
    ELSE LET s1 == Dispatch(st, r, sent)
         IN  IF Val(s1.result) # 0 THEN MarkSent(s1, r) ELSE s1

\* One iteration of the loop of send_log_reminders.
LogStep(st, r, sent) ==
    LET u == st.rem[r].user IN
    IF ~profile[u].exists
    THEN [st EXCEPT !.status = "RelatedObjectDoesNotExist"]
    ELSE IF ~profile[u].notification_enabled THEN st
    ELSE IF HasLogged(u, DateOf(now) - 1) THEN st
    ELSE LET s1 == Dispatch(st, r, sent)
         IN  IF Val(s1.result) # 0 THEN MarkSent(s1, r) ELSE s1

ReminderStep(kind, st, r, sent) ==
    CASE kind = "bedtime" -> BedtimeStep(st, r, sent)
      [] kind = "wake" -> WakeStep(st, r, sent)
      [] OTHER -> LogStep(st, r, sent)

\* for reminder in reminders: ... ; an exception ends the run where it is raised.
RECURSIVE ReminderLoop(_, _, _, _)
ReminderLoop(kind, st, ord, sent) ==
    IF ord = <<>> \/ st.status # "returned" THEN st
    ELSE ReminderLoop(kind, ReminderStep(kind, st, Head(ord), sent), Tail(ord), sent)

RunReminders(kind) ==
    \E ord \in Orders(ReminderFilter(kind)) :
    \E sent \in [ReminderFilter(kind) -> {0, 1}] :
        LET fin == ReminderLoop(kind, StartRun, ord, sent) IN
        /\ reminders' = fin.rem
        /\ lastRun' = [task |-> kind, status |-> fin.status, disp |-> fin.disp,
                       sent_count |-> fin.sent_count]
        /\ UNCHANGED <<now, profile, sessions, statVars, syncVars, reportRun>>

send_bedtime_reminders == RunReminders("bedtime")
send_wake_reminders == RunReminders("wake")
send_log_reminders == RunReminders("log")

----------------------------------------------------------------------------
(* What happens between two runs of the reminder tasks *)

\* The periodic trigger: the next instant at which the tasks are run.
Tick ==
    /\ \E t \in Ticks : /\ t > now
                        /\ \A t2 \in Ticks : t2 > now => t <= t2
                        /\ now' = t
    /\ lastRun' = NoRun
    /\ UNCHANGED <<profile, reminders, sessions, statVars, syncVars, reportRun>>

\* UserProfileViewSet.me: UserProfile.objects.get_or_create(user=request.user)
CreateProfile(u) ==
    /\ ~profile[u].exists
    /\ profile' = [profile EXCEPT ![u].exists = TRUE]
    /\ lastRun' = NoRun
    /\ UNCHANGED <<now, reminders, sessions, statVars, syncVars, reportRun>>

\* UserProfileViewSet update of notification_enabled
SetNotificationEnabled(u) ==
    /\ profile[u].exists
    /\ profile' = [profile EXCEPT ![u].notification_enabled = ~@]
    /\ lastRun' = NoRun
    /\ UNCHANGED <<now, reminders, sessions, statVars, syncVars, reportRun>>

\* SleepReminderViewSet update of is_active
SetReminderActive(r) ==
    /\ reminders' = [reminders EXCEPT ![r].is_active = ~@]
    /\ lastRun' = NoRun
    /\ UNCHANGED <<now, profile, sessions, statVars, syncVars, reportRun>>

\* SleepSessionViewSet.perform_create: the user logs last night's or today's sleep.
LogSleep(u) ==
    /\ Cardinality(Sids \ FreeSids) < MaxLogged
    /\ \E day \in {DateOf(now) - 1, DateOf(now)} :
         sessions' = [sessions EXCEPT ![NextSid] =
            Some(SaveSession(NewSession(u, At(day, 1, 0), At(day, 8, 30), None, None)))]
    /\ lastRun' = NoRun
    /\ UNCHANGED <<now, profile, reminders, statVars, syncVars, reportRun>>

NoProfile ==
    [exists |-> FALSE, notification_enabled |-> TRUE, google_calendar_enabled |-> FALSE,
     google_refresh_token |-> None]

\* UserProfile as created: notification_enabled defaults to True.
DefaultProfile == [NoProfile EXCEPT !.exists = TRUE]

\* The reminders the users have set up.
ReminderChoices(r) ==
    [user : IF r = 1 THEN {"u1"} ELSE {"u2"},
     reminder_type : ReminderTypes,
     reminder_time : IF r = 1 THEN ReminderTimes ELSE {At(0, 22, 0)},
     is_active : {TRUE},
     last_sent : {None}]

InitRem ==
    /\ now = At(1, 22, 0)
    /\ profile = [u \in Users |-> IF u = "u1" THEN NoProfile ELSE DefaultProfile]
    /\ reminders \in {f \in [Rids -> UNION {ReminderChoices(r) : r \in Rids}] :
                        \A r \in Rids : f[r] \in ReminderChoices(r)}
    /\ sessions = [s \in Sids |-> None]
    /\ lastRun = NoRun
    /\ StatIdle
    /\ SyncIdle

NextRem ==
    \/ send_bedtime_reminders
    \/ send_wake_reminders
    \/ send_log_reminders
    \/ Tick
    \/ \E u \in Users : CreateProfile(u)
    \/ \E u \in Users : SetNotificationEnabled(u)
    \/ \E r \in Rids : SetReminderActive(r)
    \/ \E u \in Users : LogSleep(u)

SpecRem == InitRem /\ [][NextRem]_vars

----------------------------------------------------------------------------
(* The statistics tasks *)

DaysPerWeek == 7

\* date.weekday(): 0 is Monday; day 0 is a Monday.
Weekday(d) == d % DaysPerWeek

\* User.objects.filter(...).distinct() is walked in primary-key order.
UserOrder == <<"u1", "u2">>

\* WindowSessions by the date of wake_time.
WindowSessions_ByWake(u, lo, hi) ==
    {s \in Sids : /\ sessions[s] # None
                  /\ Val(sessions[s]).user = u
                  /\ lo <= DateOf(Val(sessions[s]).wake_time)
                  /\ DateOf(Val(sessions[s]).wake_time) <= hi}

\* SleepSession.objects.filter(user=u, sleep_time__date__gte=lo, sleep_time__date__lte=hi)
WindowSessions(u, lo, hi) ==
    {s \in Sids : /\ sessions[s] # None
                  /\ Val(sessions[s]).user = u
                  /\ lo <= DateOf(Val(sessions[s]).sleep_time)
                  /\ DateOf(Val(sessions[s]).sleep_time) <= hi}

\* User.objects.filter(sleep_sessions__sleep_time__date... ).distinct()
WindowUsers(lo, hi) ==
    SelectSeq(UserOrder, LAMBDA u : WindowSessions(u, lo, hi) # {})

\* s.duration_hours or 0
DurationOrZero(s) ==
    IF Val(sessions[s]).duration_hours = None THEN 0
    ELSE Val(Val(sessions[s]).duration_hours)

RECURSIVE SumDuration(_)
SumDuration(S) ==
    IF S = {} THEN 0
    ELSE LET s == CHOOSE x \in S : TRUE
         IN  DurationOrZero(s) + SumDuration(S \ {s})

RECURSIVE SumQuality(_)
SumQuality(S) ==
    IF S = {} THEN 0
    ELSE LET s == CHOOSE x \in S : TRUE
         IN  Val(Val(sessions[s]).quality_rating) + SumQuality(S \ {s})

\* Aggregate with the average taken over the sessions that have a duration.
Aggregate_AverageOverTimed(u, lo, hi) ==
    LET S == WindowSessions(u, lo, hi)
        timed == {s \in S : Val(sessions[s]).duration_hours # None}
    IN  [total_sleep_hours |-> SumDuration(S),
         average_sleep_hours |->
            IF timed = {} THEN 0 ELSE RoundDiv(SumDuration(S), Cardinality(timed)),
         average_quality |-> None,
         sessions_count |-> Cardinality(S)]

\* Aggregate with the ratings averaged over all sessions of the window, an
\* unrated session counting 0.
Aggregate_QualityOverAll(u, lo, hi) ==
    LET S == WindowSessions(u, lo, hi)
        quality_sessions == {s \in S : Val(sessions[s]).quality_rating # None}
    IN  [total_sleep_hours |-> SumDuration(S),
         average_sleep_hours |-> RoundDiv(SumDuration(S), Cardinality(S)),
         average_quality |->
            Some(RoundDiv(100 * SumQuality(quality_sessions), Cardinality(S))),
         sessions_count |-> Cardinality(S)]

\* The defaults of update_or_create, as the DecimalField columns store them:
\* two decimal places, a tie going to the even digit.
Aggregate(u, lo, hi) ==
    LET S == WindowSessions(u, lo, hi)
        total_hours == SumDuration(S)
        quality_sessions == {s \in S : Val(sessions[s]).quality_rating # None}
    IN  [total_sleep_hours |-> total_hours,
         average_sleep_hours |-> RoundDiv(total_hours, Cardinality(S)),
         average_quality |->
            IF quality_sessions = {} THEN None
            ELSE Some(RoundDiv(100 * SumQuality(quality_sessions),
                               Cardinality(quality_sessions))),
         sessions_count |-> Cardinality(S)]

\* The rows of the table with the key (user, date, period_type).
Matching(tbl, u, date, period) ==
    {i \in DOMAIN tbl : /\ tbl[i].user = u
                        /\ tbl[i].date = date
                        /\ tbl[i].period_type = period}

NewRow(u, date, period, defaults) ==
    [user |-> u, date |-> date, period_type |-> period,
     total_sleep_hours |-> defaults.total_sleep_hours,
     average_sleep_hours |-> defaults.average_sleep_hours,
     average_quality |-> defaults.average_quality,
     sessions_count |-> defaults.sessions_count,
     goal_achievement_rate |-> None]

\* INSERT without the unique constraint.
InsertRow_NoConstraint(tbl, row) ==
    [tbl |-> Append(tbl, row), status |-> "ok"]

\* INSERT under unique_together = ['user', 'date', 'period_type'].
InsertRow(tbl, row) ==
    IF Matching(tbl, row.user, row.date, row.period_type) # {}
    THEN [tbl |-> tbl, status |-> "IntegrityError"]
    ELSE [tbl |-> Append(tbl, row), status |-> "ok"]

\* UpdateRow that replaces the row by a new one of the same key.
UpdateRow_Replace(tbl, i, defaults) ==
    [tbl EXCEPT ![i] = NewRow(tbl[i].user, tbl[i].date, tbl[i].period_type, defaults)]

\* setattr(obj, k, v) for the defaults; obj.save()
UpdateRow(tbl, i, defaults) ==
    [tbl EXCEPT ![i].total_sleep_hours = defaults.total_sleep_hours,
                ![i].average_sleep_hours = defaults.average_sleep_hours,
                ![i].average_quality = defaults.average_quality,
                ![i].sessions_count = defaults.sessions_count]

\* UpdateOrCreate as a plain create().
UpdateOrCreate_AlwaysCreate(tbl, u, date, period, defaults) ==
    [tbl |-> Append(tbl, NewRow(u, date, period, defaults)), status |-> "ok"]

\* SleepStatistics.objects.update_or_create(user=, date=, period_type=, defaults=)
\* when nothing else writes the table in between.
UpdateOrCreate(tbl, u, date, period, defaults) ==
    LET found == Matching(tbl, u, date, period) IN
    IF found = {} THEN InsertRow(tbl, NewRow(u, date, period, defaults))
    ELSE IF Cardinality(found) > 1 THEN [tbl |-> tbl, status |-> "MultipleObjectsReturned"]
    ELSE [tbl |-> UpdateRow(tbl, CHOOSE i \in found : TRUE, defaults), status |-> "ok"]

\* for user in users: if sessions.exists(): update_or_create(...); stats_created += 1
RECURSIVE StatLoop(_, _, _, _, _, _)
StatLoop(st, users, lo, hi, anchor, period) ==
    IF users = <<>> \/ st.status # "returned" THEN st
    ELSE LET u == Head(users)
             res == UpdateOrCreate(st.tbl, u, anchor, period, Aggregate(u, lo, hi))
             st1 == IF WindowSessions(u, lo, hi) = {} THEN st
                    ELSE IF res.status # "ok" THEN [st EXCEPT !.status = res.status]
                    ELSE [st EXCEPT !.tbl = res.tbl, !.stats_created = @ + 1]
         IN  StatLoop(st1, Tail(users), lo, hi, anchor, period)

\* RunStatistics that writes a row for every user, one of zeros for a user
\* without a session in the window.
RunStatistics_AllUsers(task, lo, hi, anchor, period) ==
    LET fin == StatLoop([tbl |-> stats, stats_created |-> 0, status |-> "returned"],
                        WindowUsers(lo, hi), lo, hi, anchor, period)
        Fill[i \in 0..Len(UserOrder)] ==
            IF i = 0 THEN fin.tbl
            ELSE IF WindowSessions(UserOrder[i], lo, hi) # {} THEN Fill[i - 1]
            ELSE UpdateOrCreate(Fill[i - 1], UserOrder[i], anchor, period, NoValues).tbl
    IN  /\ stats' = Fill[Len(UserOrder)]
        /\ statRun' = [task |-> task, status |-> fin.status,
                       stats_created |-> fin.stats_created,
                       again |-> (statRun.task = task), before |-> stats]
        /\ UNCHANGED <<now, profile, sessions, workers, remVars, syncVars>>

RunStatistics(task, lo, hi, anchor, period) ==
    LET fin == StatLoop([tbl |-> stats, stats_created |-> 0, status |-> "returned"],
                        WindowUsers(lo, hi), lo, hi, anchor, period)
    IN  /\ stats' = fin.tbl
        /\ statRun' = [task |-> task, status |-> fin.status,
                       stats_created |-> fin.stats_created,
                       again |-> (statRun.task = task), before |-> stats]
        /\ UNCHANGED <<now, profile, sessions, workers, remVars, syncVars>>

\* WeekStart as the first day of the seven days that end today.
WeekStart_Rolling(today) == today - (DaysPerWeek - 1)

\* week_start = today - timedelta(days=today.weekday())
WeekStart(today) == today - Weekday(today)

calculate_daily_statistics ==
    LET yesterday == DateOf(now) - 1
    IN  RunStatistics("daily", yesterday, yesterday, yesterday, "daily")

calculate_weekly_statistics ==
    LET today == DateOf(now)
        week_start == WeekStart(today)
        week_end == week_start + (DaysPerWeek - 1)
    IN  RunStatistics("weekly", week_start, week_end, week_start, "weekly")

----------------------------------------------------------------------------
(* What happens between two runs of the statistics tasks *)

\* The statistics tasks run at 09:00, from the Sunday of week 0 to day MaxStatDay.
StatDays == (DaysPerWeek - 1)..MaxStatDay

NextDay ==
    /\ DateOf(now) + 1 \in StatDays
    /\ now' = now + MinutesPerDay
    /\ statRun' = NoStatRun
    /\ UNCHANGED <<profile, sessions, stats, workers, remVars, syncVars>>

\* The lengths of the sessions the users log, by primary key: 7.5 h, 8 h, 6.5 h.
SleepLengths == <<450, 480, 390>>
SleepLength(s) == SleepLengths[((s - 1) % Len(SleepLengths)) + 1]

\* The ratings the users give, by primary key.
Ratings == <<3, 5, 4>>
Rating(s) == Ratings[((s - 1) % Len(Ratings)) + 1]

\* SleepSessionViewSet.perform_create: the user logs last night's sleep, which
\* started at 23:30 of yesterday, with or without a rating.
AddSession(u) ==
    /\ FreeSids # {}
    /\ \E quality \in {None, Some(Rating(NextSid))} :
         LET sleep_time == At(DateOf(now) - 1, 23, 30) IN
         sessions' = [sessions EXCEPT ![NextSid] =
            Some(SaveSession(NewSession(u, sleep_time, sleep_time + SleepLength(NextSid),
                                        quality, None)))]
    /\ statRun' = NoStatRun
    /\ UNCHANGED <<now, profile, stats, workers, remVars, syncVars>>

\* A row written without save() (the column is nullable): no duration.
UnsavedSession ==
    NewSession("u1", At(DaysPerWeek - 1, 23, 30), At(DaysPerWeek, 7, 0), None, None)

InitStats ==
    /\ now = At(DaysPerWeek - 1, 9, 0)
    /\ profile = [u \in Users |-> DefaultProfile]
    /\ reminders = [r \in Rids |-> CHOOSE x \in ReminderChoices(r) : TRUE]
    /\ sessions \in {[s \in Sids |-> None],
                     [s \in Sids |-> IF s = 1 THEN Some(UnsavedSession) ELSE None]}
    /\ lastRun = NoRun
    /\ StatIdle
    /\ SyncIdle

NextStats ==
    \/ calculate_daily_statistics
    \/ calculate_weekly_statistics
    \/ NextDay
    \/ \E u \in Users : AddSession(u)

SpecStats == InitStats /\ [][NextStats]_vars

----------------------------------------------------------------------------
(* The statistics tasks while sessions and rows are edited *)

\* SleepSessionViewSet.perform_update: the user gives a rating or takes it back.
RateSession(s) ==
    /\ sessions[s] # None
    /\ \E quality \in {None, Some(Rating(s))} \ {Val(sessions[s]).quality_rating} :
         sessions' = [sessions EXCEPT ![s] =
            Some(SaveSession([Val(sessions[s]) EXCEPT !.quality_rating = quality]))]
    /\ statRun' = NoStatRun
    /\ UNCHANGED <<now, profile, stats, workers, remVars, syncVars>>

\* The goal achievement rates an administrator enters: 80.00 per cent.
GoalRates == {Some(80 * 100)}

\* SleepStatisticsAdmin: goal_achievement_rate of a row is edited.
SetGoalRate(i) ==
    /\ stats[i].goal_achievement_rate = None
    /\ \E rate \in GoalRates :
         stats' = [stats EXCEPT ![i].goal_achievement_rate = rate]
    /\ statRun' = NoStatRun
    /\ UNCHANGED <<now, profile, sessions, workers, remVars, syncVars>>

\* A session is logged, as long as fewer than MaxEdited are.
LogEdited(u) ==
    /\ Cardinality(Sids \ FreeSids) < MaxEdited
    /\ AddSession(u)

NextUpsert ==
    \/ calculate_daily_statistics
    \/ calculate_weekly_statistics
    \/ NextDay
    \/ \E u \in Users : LogEdited(u)
    \/ \E s \in Sids : RateSession(s)
    \/ \E i \in DOMAIN stats : SetGoalRate(i)

SpecUpsert == InitStats /\ [][NextUpsert]_vars

----------------------------------------------------------------------------
(* The weekly task on every day of two weeks *)

\* The next day, 09:00.
Midnight ==
    /\ DateOf(now) < MaxWeekDay
    /\ now' = now + MinutesPerDay
    /\ statRun' = NoStatRun
    /\ UNCHANGED <<profile, sessions, stats, workers, remVars, syncVars>>

\* A session is logged, as long as fewer than MaxWeekLogged are.
LogInWeek(u) ==
    /\ Cardinality(Sids \ FreeSids) < MaxWeekLogged
    /\ AddSession(u)

InitWeek ==
    /\ now = At(0, 9, 0)
    /\ profile = [u \in Users |-> DefaultProfile]
    /\ reminders = [r \in Rids |-> CHOOSE x \in ReminderChoices(r) : TRUE]
    /\ sessions = [s \in Sids |-> None]
    /\ lastRun = NoRun
    /\ StatIdle
    /\ SyncIdle

NextWeek ==
    \/ calculate_weekly_statistics
    \/ Midnight
    \/ \E u \in Users : LogInWeek(u)

SpecWeek == InitWeek /\ [][NextWeek]_vars

----------------------------------------------------------------------------
(* send_weekly_reports *)

\* ReportStart as the Monday of the week of today.
ReportStart_ThisWeek(today) == today - Weekday(today)

\* week_start = today - timedelta(days=today.weekday() + 7)
ReportStart(today) == today - (Weekday(today) + DaysPerWeek)

\* The dictionary `statistics` built from a row: float(x) if x else 0 for the
\* nullable columns.
ReportValues(row) ==
    [avg_hours |-> row.average_sleep_hours,
     sessions |-> row.sessions_count,
     avg_quality |-> IF row.average_quality = None THEN 0 ELSE Val(row.average_quality),
     goal_achievement |->
        IF row.goal_achievement_rate = None THEN 0 ELSE Val(row.goal_achievement_rate)]

\* One iteration of the loop of send_weekly_reports: `statistics` is assigned
\* under `if stat.user.profile.notification_enabled:`, and the call of
\* send_weekly_report and the count are at the level of that `if`.
ReportStep(st, i, sent) ==
    LET u == stats[i].user IN
    IF ~profile[u].exists
    THEN [st EXCEPT !.status = "RelatedObjectDoesNotExist"]
    ELSE LET s1 == IF profile[u].notification_enabled
                   THEN [st EXCEPT !.statistics = Some(ReportValues(stats[i]))]
                   ELSE st
         IN  IF s1.statistics = None
             THEN [s1 EXCEPT !.status = "UnboundLocalError"]
             ELSE [s1 EXCEPT !.reports[u] = s1.statistics,
                             !.sent_count = @ + sent[i]]

RECURSIVE ReportLoop(_, _, _)
ReportLoop(st, ord, sent) ==
    IF ord = <<>> \/ st.status # "returned" THEN st
    ELSE ReportLoop(ReportStep(st, Head(ord), sent), Tail(ord), sent)

\* SleepStatistics.objects.filter(date=week_start, period_type='weekly')
ReportRows(week_start) ==
    {i \in DOMAIN stats : stats[i].date = week_start /\ stats[i].period_type = "weekly"}

send_weekly_reports ==
    LET today == DateOf(now)
        week_start == ReportStart(today)
    IN  \E ord \in Orders(ReportRows(week_start)) :
        \E sent \in [ReportRows(week_start) -> {0, 1}] :
            LET fin == ReportLoop([status |-> "returned", statistics |-> None,
                                   reports |-> [u \in Users |-> None], sent_count |-> 0],
                                  ord, sent)
            IN  /\ reportRun' = [status |-> fin.status, today |-> today,
                                 week_start |-> week_start, reports |-> fin.reports,
                                 sent_count |-> fin.sent_count]
                /\ UNCHANGED <<now, profile, reminders, sessions, lastRun, statVars, syncVars>>

\* UserProfileViewSet update of notification_enabled, while the reports run.
SwitchNotifications(u) ==
    /\ profile[u].exists
    /\ profile' = [profile EXCEPT ![u].notification_enabled = ~@]
    /\ UNCHANGED <<now, sessions, remVars, statVars, syncVars>>

NextReport ==
    \/ calculate_weekly_statistics
    \/ send_weekly_reports
    \/ NextDay
    \/ \E u \in Users : LogInWeek(u)
    \/ \E u \in Users : SwitchNotifications(u)

SpecReport == InitStats /\ [][NextReport]_vars

----------------------------------------------------------------------------
(* Two statistics tasks side by side: each query of a task is a step *)

WindowLo(task, today) == IF task = "daily" THEN today - 1 ELSE WeekStart(today)
WindowHi(task, today) ==
    IF task = "daily" THEN today - 1 ELSE WeekStart(today) + (DaysPerWeek - 1)

\* today / yesterday / week_start are read and the users query is evaluated.
StartTask(w, task) ==
    /\ workers[w].pc = "idle"
    /\ workers' = [workers EXCEPT ![w] =
          [pc |-> "loop", task |-> task, today |-> DateOf(now),
           users |-> WindowUsers(WindowLo(task, DateOf(now)), WindowHi(task, DateOf(now))),
           defaults |-> NoValues, wrote |-> None]]
    /\ UNCHANGED <<now, profile, sessions, stats, statRun, remVars, syncVars>>

\* The session queries of one iteration: sessions.exists() and the defaults.
ComputeDefaults(w) ==
    LET me == workers[w]
        u == Head(me.users)
        lo == WindowLo(me.task, me.today)
        hi == WindowHi(me.task, me.today)
    IN  /\ me.pc = "loop"
        /\ me.users # <<>>
        /\ workers' = [workers EXCEPT ![w] =
              IF WindowSessions(u, lo, hi) = {}
              THEN [me EXCEPT !.users = Tail(me.users)]
              ELSE [me EXCEPT !.pc = "get", !.defaults = Aggregate(u, lo, hi)]]
        /\ UNCHANGED <<now, profile, sessions, stats, statRun, remVars, syncVars>>

Wrote(me, raced) ==
    Some([user |-> Head(me.users), date |-> WindowLo(me.task, me.today),
          period_type |-> me.task, defaults |-> me.defaults, raced |-> raced])

\* update_or_create, first half: select_for_update().get(); a row that is found
\* is locked, updated and saved in the same transaction.
GetOrUpdate(w) ==
    LET me == workers[w]
        found == Matching(stats, Head(me.users), WindowLo(me.task, me.today), me.task)
    IN  /\ me.pc = "get"
        /\ IF found = {}
           THEN /\ workers' = [workers EXCEPT ![w].pc = "create"]
                /\ stats' = stats
           ELSE IF Cardinality(found) > 1
           THEN /\ workers' = [workers EXCEPT ![w].pc = "idle", ![w].users = <<>>]
                /\ stats' = stats
           ELSE /\ stats' = UpdateRow(stats, CHOOSE i \in found : TRUE, me.defaults)
                /\ workers' = [workers EXCEPT ![w].pc = "loop",
                                              ![w].users = Tail(me.users),
                                              ![w].wrote = Wrote(me, FALSE)]
        /\ UNCHANGED <<now, profile, sessions, statRun, remVars, syncVars>>

\* update_or_create, second half: create(); on IntegrityError the row that is
\* there now is fetched under the lock, updated and saved.
CreateOrUpdate(w) ==
    LET me == workers[w]
        key_user == Head(me.users)
        key_date == WindowLo(me.task, me.today)
        res == InsertRow(stats, NewRow(key_user, key_date, me.task, me.defaults))
        found == Matching(stats, key_user, key_date, me.task)
    IN  /\ me.pc = "create"
        /\ IF res.status = "ok"
           THEN /\ stats' = res.tbl
                /\ workers' = [workers EXCEPT ![w].pc = "loop",
                                              ![w].users = Tail(me.users),
                                              ![w].wrote = Wrote(me, FALSE)]
           ELSE /\ stats' = UpdateRow(stats, CHOOSE i \in found : TRUE, me.defaults)
                /\ workers' = [workers EXCEPT ![w].pc = "loop",
                                              ![w].users = Tail(me.users),
                                              ![w].wrote = Wrote(me, TRUE)]
        /\ UNCHANGED <<now, profile, sessions, statRun, remVars, syncVars>>

\* return f"Created/updated {stats_created} ... statistics"
FinishTask(w) ==
    /\ workers[w].pc = "loop"
    /\ workers[w].users = <<>>
    /\ workers' = [workers EXCEPT ![w].pc = "idle"]
    /\ UNCHANGED <<now, profile, sessions, stats, statRun, remVars, syncVars>>

\* A session is logged while the tasks run.
LogWhileRunning(u) ==
    /\ Cardinality(Sids \ FreeSids) < MaxRacing
    /\ AddSession(u)

InitConc ==
    /\ now = At(DaysPerWeek - 1, 9, 0)
    /\ profile = [u \in Users |-> DefaultProfile]
    /\ reminders = [r \in Rids |-> CHOOSE x \in ReminderChoices(r) : TRUE]
    /\ sessions = [s \in Sids |-> None]
    /\ lastRun = NoRun
    /\ StatIdle
    /\ SyncIdle

NextConc ==
    \/ \E w \in Workers : StartTask(w, "daily")
    \/ \E w \in Workers : StartTask(w, "weekly")
    \/ \E w \in Workers : ComputeDefaults(w)
    \/ \E w \in Workers : GetOrUpdate(w)
    \/ \E w \in Workers : CreateOrUpdate(w)
    \/ \E w \in Workers : FinishTask(w)
    \/ \E u \in Users : LogWhileRunning(u)

SpecConc == InitConc /\ [][NextConc]_vars

----------------------------------------------------------------------------
(* A statistics run that stops part-way *)

\* The worker whose run stops, and stays stopped.
Stopper == CHOOSE w \in Workers : TRUE

\* A run of a statistics task that ends (the worker is killed, the store is lost)
\* after the update_or_create of the first `done` users of its loop: every
\* update_or_create is committed on its own, so these rows stay.
StoppedRun(task) ==
    LET today == DateOf(now)
        lo == WindowLo(task, today)
        hi == WindowHi(task, today)
        users == WindowUsers(lo, hi)
    IN  /\ workers[Stopper].pc = "idle"
        /\ \E done \in 1..(Len(users) - 1) :
             LET fin == StatLoop([tbl |-> stats, stats_created |-> 0, status |-> "returned"],
                                 SubSeq(users, 1, done), lo, hi, lo, task)
             IN  /\ stats' = fin.tbl
                 /\ statRun' = [task |-> task, status |-> "stopped",
                                stats_created |-> fin.stats_created,
                                again |-> (statRun.task = task), before |-> stats]
                 /\ workers' = [workers EXCEPT ![Stopper] =
                       [pc |-> "stopped", task |-> task, today |-> today,
                        users |-> SubSeq(users, done + 1, Len(users)),
                        defaults |-> NoValues, wrote |-> None]]
        /\ UNCHANGED <<now, profile, sessions, remVars, syncVars>>

\* A session is logged, as long as fewer than MaxRecovered are.
LogAround(u) ==
    /\ Cardinality(Sids \ FreeSids) < MaxRecovered
    /\ AddSession(u)

\* SleepSessionViewSet (ModelViewSet) destroy: the user deletes a session, here
\* after the run has stopped.
DropSession(s) ==
    /\ workers[Stopper].pc = "stopped"
    /\ sessions[s] # None
    /\ sessions' = [sessions EXCEPT ![s] = None]
    /\ statRun' = NoStatRun
    /\ UNCHANGED <<now, profile, stats, workers, remVars, syncVars>>

\* The task that stopped is run again, for the same window.
Rerun(task) ==
    /\ workers[Stopper].pc = "stopped"
    /\ workers[Stopper].task = task
    /\ IF task = "daily" THEN calculate_daily_statistics ELSE calculate_weekly_statistics

NextRecover ==
    \/ Rerun("daily")
    \/ Rerun("weekly")
    \/ StoppedRun("daily")
    \/ StoppedRun("weekly")
    \/ \E u \in Users : LogAround(u)
    \/ \E s \in Sids : DropSession(s)

SpecRecover == InitConc /\ [][NextRecover]_vars

----------------------------------------------------------------------------
(* The calendar sync *)

\* What the remote side does during one run: the stored credential as it loads
\* (valid, expired and refreshed, or unusable: unreadable or its refresh fails),
\* the authorization flow, build() and events().insert / update().execute().
\* A part that is not reached (the flow with a usable credential, the calls after
\* a failure) is listed with one value only.
Environments ==
    {e \in [creds : {"valid", "refreshed", "unusable"},
            flow : {"FileNotFoundError", "waits"},
            build : {"ok", "HttpError"},
            execute : {"ok", "HttpError", "Exception"}] :
        /\ e.creds # "unusable" => e.flow = "waits"
        /\ e.creds = "unusable" => (e.build = "ok" /\ e.execute = "ok")
        /\ e.build = "HttpError" => e.execute = "ok"}

\* GoogleCalendarService.get_credentials: a credential, or None.
GetCredentials(p, env) ==
    IF p.google_refresh_token = None THEN "None"
    ELSE IF env.creds = "unusable" THEN "None"
    ELSE "creds"

\* GoogleCalendarService.get_service: the service, None, an exception of
\* authenticate(), or the wait of flow.run_local_server for the user.
GetService(p, env) ==
    IF GetCredentials(p, env) = "None"
    THEN (IF env.flow = "FileNotFoundError" THEN "FileNotFoundError" ELSE "waits")
    ELSE IF env.build = "HttpError" THEN "None"
    ELSE "service"

EventIds(events) == {e.id : e \in events}

\* events().insert(calendarId='primary', body=event).execute() on the remote side
RemoteInsert(events, sid, row) ==
    events \cup {[id |-> Cardinality(events) + 1, sid |-> sid,
                  start |-> row.sleep_time, end |-> row.wake_time]}

\* events().update(calendarId='primary', eventId=event_id, body=event).execute()
RemoteUpdate(events, event_id, row) ==
    {IF e.id = event_id THEN [e EXCEPT !.start = row.sleep_time, !.end = row.wake_time]
     ELSE e : e \in events}

\* AlreadySynced that never holds: every sync creates.
AlreadySynced_Never(row) == FALSE

\* if sleep_session.synced_to_calendar and sleep_session.calendar_event_id:
AlreadySynced(row) ==
    row.synced_to_calendar /\ row.calendar_event_id # None

\* MarkSynced that sets the flag only.
MarkSynced_FlagOnly(row, event_id) ==
    [row EXCEPT !.synced_to_calendar = TRUE]

\* sleep_session.calendar_event_id = event_id; sleep_session.synced_to_calendar = True
MarkSynced(row, event_id) ==
    [row EXCEPT !.calendar_event_id = event_id, !.synced_to_calendar = TRUE]

Outcome(status, message, event_id, call, failure, row, events) ==
    [status |-> status, message |-> message, event_id |-> event_id, call |-> call,
     failure |-> failure, row |-> row, events |-> events]

\* The body of sync_sleep_to_calendar for a session that exists.  `failure` says
\* what went wrong: "remote" (the service is unavailable or the remote call
\* failed), "auth" (no usable credential) or "none".
SyncSession(sid, row, p, events, env) ==
    LET service == GetService(p, env)
        update == [kind |-> "update", event_id |-> row.calendar_event_id]
        insert == [kind |-> "insert", event_id |-> Some(Cardinality(events) + 1)]
    IN
    IF ~p.exists
    THEN Outcome("returned", "Error syncing to calendar", None, NoCall, "none", row, events)
    ELSE IF ~p.google_calendar_enabled
    THEN Outcome("returned", "Google Calendar not enabled for this user", None, NoCall,
                 "none", row, events)
    ELSE IF service = "waits"
    THEN Outcome("waits", "none", None, NoCall, "auth", row, events)
    ELSE IF service = "FileNotFoundError"
    THEN Outcome("returned", "Error syncing to calendar", None, NoCall, "auth", row, events)
    ELSE IF AlreadySynced(row)
    THEN IF service = "None"
         THEN Outcome("returned", "Updated calendar event", None, NoCall, "remote", row, events)
         ELSE IF env.execute = "Exception"
         THEN Outcome("returned", "Error syncing to calendar", None, update, "remote", row, events)
         ELSE IF env.execute = "HttpError" \/ Val(row.calendar_event_id) \notin EventIds(events)
         THEN Outcome("returned", "Updated calendar event", None, update, "remote", row, events)
         ELSE Outcome("returned", "Updated calendar event", row.calendar_event_id, update,
                      "none", row, RemoteUpdate(events, Val(row.calendar_event_id), row))
    ELSE IF service = "None"
         THEN Outcome("returned", "Failed to sync to calendar", None, NoCall, "remote", row, events)
         ELSE IF env.execute = "Exception"
         THEN Outcome("returned", "Error syncing to calendar", None, insert, "remote", row, events)
         ELSE IF env.execute = "HttpError"
         THEN Outcome("returned", "Failed to sync to calendar", None, insert, "remote", row, events)
         ELSE Outcome("returned", "Created calendar event", insert.event_id, insert, "none",
                      SaveSession(MarkSynced(row, insert.event_id)),
                      RemoteInsert(events, sid, row))

\* NotFound as the handler of any other exception would report it.
NotFound_AsError(sid) ==
    [sid |-> sid, status |-> "returned", message |-> "Error syncing to calendar",
     event_id |-> None, call |-> NoCall, failure |-> "none", before |-> None]

\* except SleepSession.DoesNotExist: return f"Sleep session {sleep_session_id} not found"
NotFound(sid) ==
    [sid |-> sid, status |-> "returned", message |-> "Sleep session not found",
     event_id |-> None, call |-> NoCall, failure |-> "none", before |-> None]

sync_sleep_to_calendar(sid) ==
    IF sessions[sid] = None
    THEN /\ syncRun' = NotFound(sid)
         /\ UNCHANGED <<now, profile, sessions, remote, syncers, remVars, statVars>>
    ELSE \E env \in Environments :
            LET row == Val(sessions[sid])
                out == SyncSession(sid, row, profile[row.user], remote, env)
            IN  /\ sessions' = [sessions EXCEPT ![sid] = Some(out.row)]
                /\ remote' = out.events
                /\ syncRun' = [sid |-> sid, status |-> out.status, message |-> out.message,
                               event_id |-> out.event_id, call |-> out.call,
                               failure |-> out.failure,
                               before |-> sessions[sid]]
                /\ UNCHANGED <<now, profile, syncers, remVars, statVars>>

----------------------------------------------------------------------------
(* What the users do between two runs of the sync *)

\* The timestamps the users enter: a night of 7.5 h, a nap of 50 minutes, a wake
\* time equal to the sleep time, and one 10 minutes before it.
SleepTimes == {At(1, 23, 0), At(1, 23, 20)}
WakeTimes == {At(2, 6, 30), At(1, 23, 50), At(1, 23, 0), At(1, 22, 50)}

\* The duration_hours a caller passes in: none, or 9.99.
GivenDurations == {None, Some(999)}

\* SleepSessionViewSet.perform_create: serializer.save(user=request.user)
CreateSession(u) ==
    /\ Cardinality(Sids \ FreeSids) < MaxSynced
    /\ \E sleep_time \in SleepTimes, wake_time \in WakeTimes, given \in GivenDurations :
         sessions' = [sessions EXCEPT ![NextSid] =
            Some(SaveSession(NewSession(u, sleep_time, wake_time, None, given)))]
    /\ syncRun' = NoSyncRun
    /\ UNCHANGED <<now, profile, remote, syncers, remVars, statVars>>

\* SleepSessionViewSet.perform_update: serializer.save()
EditSession(s) ==
    /\ sessions[s] # None
    /\ \E sleep_time \in SleepTimes, wake_time \in WakeTimes :
         sessions' = [sessions EXCEPT ![s] =
            Some(SaveSession([Val(sessions[s]) EXCEPT !.sleep_time = sleep_time,
                                                      !.wake_time = wake_time]))]
    /\ syncRun' = NoSyncRun
    /\ UNCHANGED <<now, profile, remote, syncers, remVars, statVars>>

\* SleepSessionViewSet (ModelViewSet) destroy: the row is deleted; the remote
\* event, if there is one, stays.
DeleteSession(s) ==
    /\ sessions[s] # None
    /\ sessions' = [sessions EXCEPT ![s] = None]
    /\ syncRun' = NoSyncRun
    /\ UNCHANGED <<now, profile, remote, syncers, remVars, statVars>>

\* UserProfileViewSet.connect_google_calendar: authenticate() with the user present
\* stores the credential and sets google_calendar_enabled.
ConnectCalendar(u) ==
    /\ profile[u].exists
    /\ profile' = [profile EXCEPT ![u].google_refresh_token = Some("pickled"),
                                  ![u].google_calendar_enabled = TRUE]
    /\ syncRun' = NoSyncRun
    /\ UNCHANGED <<now, sessions, remote, syncers, remVars, statVars>>

\* UserProfileViewSet update of google_calendar_enabled
SetCalendarEnabled(u) ==
    /\ profile[u].exists
    /\ profile' = [profile EXCEPT ![u].google_calendar_enabled = ~@]
    /\ syncRun' = NoSyncRun
    /\ UNCHANGED <<now, sessions, remote, syncers, remVars, statVars>>

InitSync ==
    /\ now = At(DaysPerWeek - 1, 9, 0)
    /\ profile = [u \in Users |-> IF u = "u1" THEN DefaultProfile ELSE NoProfile]
    /\ reminders = [r \in Rids |-> CHOOSE x \in ReminderChoices(r) : TRUE]
    /\ sessions = [s \in Sids |-> None]
    /\ lastRun = NoRun
    /\ StatIdle
    /\ SyncIdle

NextSync ==
    \/ \E sid \in Sids : sync_sleep_to_calendar(sid)
    \/ \E u \in Users : CreateSession(u)
    \/ \E s \in Sids : EditSession(s)
    \/ \E s \in Sids : DeleteSession(s)
    \/ \E u \in Users : ConnectCalendar(u)
    \/ \E u \in Users : SetCalendarEnabled(u)

SpecSync == InitSync /\ [][NextSync]_vars

----------------------------------------------------------------------------
(* Two syncs side by side: the read of the session, the remote call and the
   save are steps of their own *)

\* sleep_session = SleepSession.objects.get(id=...); user_profile = ...: the task
\* keeps the row as it read it.  A task that finds no session, a profile without
\* google_calendar_enabled or no stored credential ends as in SyncSession, without
\* a remote call, and is left out here.
SyncRead(w, sid) ==
    /\ syncers[w].pc = "idle"
    /\ sessions[sid] # None
    /\ LET p == profile[Val(sessions[sid]).user]
       IN  p.exists /\ p.google_calendar_enabled /\ p.google_refresh_token # None
    /\ syncers' = [syncers EXCEPT ![w] =
          [pc |-> "call", sid |-> sid, row |-> sessions[sid], event_id |-> None]]
    /\ UNCHANGED <<now, profile, sessions, remote, syncRun, remVars, statVars>>

\* update_sleep_event / create_sleep_event with the row as read; the task returns
\* after an update and after a failed create.
SyncCall(w) ==
    LET me == syncers[w]
        row == Val(me.row)
    IN  /\ me.pc = "call"
        /\ \E execute \in {"ok", "HttpError"} :
             IF AlreadySynced(row)
             THEN /\ remote' = IF execute = "ok"
                                   /\ Val(row.calendar_event_id) \in EventIds(remote)
                               THEN RemoteUpdate(remote, Val(row.calendar_event_id), row)
                               ELSE remote
                  /\ syncers' = [syncers EXCEPT ![w] = IdleSyncer]
             ELSE IF execute = "ok"
             THEN /\ remote' = RemoteInsert(remote, me.sid, row)
                  /\ syncers' = [syncers EXCEPT ![w].pc = "save",
                                                ![w].event_id = Some(Cardinality(remote) + 1)]
             ELSE /\ remote' = remote
                  /\ syncers' = [syncers EXCEPT ![w] = IdleSyncer]
        /\ UNCHANGED <<now, profile, sessions, syncRun, remVars, statVars>>

\* sleep_session.calendar_event_id = event_id; sleep_session.synced_to_calendar =
\* True; sleep_session.save(): every column is written from the row as read.
SyncStore(w) ==
    LET me == syncers[w] IN
    /\ me.pc = "save"
    /\ sessions' = [sessions EXCEPT ![me.sid] =
          Some(SaveSession(MarkSynced(Val(me.row), me.event_id)))]
    /\ syncers' = [syncers EXCEPT ![w] = IdleSyncer]
    /\ UNCHANGED <<now, profile, remote, syncRun, remVars, statVars>>

NextSyncConc ==
    \/ \E w \in Workers, sid \in Sids : SyncRead(w, sid)
    \/ \E w \in Workers : SyncCall(w)
    \/ \E w \in Workers : SyncStore(w)
    \/ \E u \in Users : CreateSession(u)
    \/ \E s \in Sids : EditSession(s)
    \/ \E u \in Users : ConnectCalendar(u)

SpecSyncConc == InitSync /\ [][NextSyncConc]_vars

----------------------------------------------------------------------------
(* Properties of the reminder tasks *)

Owner(r) == reminders[r].user
NotificationsOn(u) == profile[u].exists /\ profile[u].notification_enabled
TimeMatches(r) ==
    /\ HourOf(reminders[r].reminder_time) = HourOf(now)
    /\ MinuteOf(reminders[r].reminder_time) = MinuteOf(now)

\* The owner of reminder r has a session whose sleep_time is on the day before now.
OwnerLoggedYesterday(r) ==
    \E s \in Sids :
        /\ sessions[s] # None
        /\ Val(sessions[s]).user = reminders[r].user
        /\ DateOf(now) - DateOf(Val(sessions[s]).sleep_time) = 1

\* C1: in every step, a reminder's last_sent changes only if the run of that step
\* dispatched a notification for that reminder and the dispatcher reported
\* success, and it is then the timestamp of the tick.
C1_LastSentOnlyAfterSuccess ==
    [][\A r \in Rids :
          reminders'[r].last_sent # reminders[r].last_sent =>
              /\ lastRun'.disp[r] = "sent"
              /\ reminders'[r].last_sent = Some(now)]_vars

\* C2: a run dispatches a notification for a reminder only if the reminder is
\* active, of the kind of the task, set to the hour and minute of the tick, and
\* its owner has notifications enabled.
C2_DispatchOnlyIfDue ==
    \A r \in Rids :
        lastRun.disp[r] # "none" =>
            /\ reminders[r].is_active
            /\ reminders[r].reminder_type = lastRun.task
            /\ TimeMatches(r)
            /\ NotificationsOn(Owner(r))

\* A wake run that dispatched for reminder 1 and not for reminder 2, a wake
\* reminder of the same time whose owner has notifications disabled.
C2_Witness ==
    /\ lastRun.task = "wake"
    /\ lastRun.disp[1] = "sent"
    /\ lastRun.disp[2] = "none"
    /\ reminders[2].reminder_type = "wake"
    /\ reminders[2].is_active
    /\ TimeMatches(2)
    /\ ~NotificationsOn(Owner(2))

\* C3: every run of a task ends by returning its status string, none with an
\* uncaught exception.
C3_TasksReturn ==
    /\ lastRun.status \in {"none", "returned"}
    /\ statRun.status \in {"none", "returned"}
    /\ syncRun.status \in {"none", "returned"}

\* C8: a run of send_log_reminders dispatches nothing for a log reminder whose
\* owner has a session that started yesterday and leaves its last_sent as it was;
\* a due log reminder whose owner has notifications enabled and no session of
\* yesterday is dispatched in every run that returns, whatever sessions other
\* owners have and whatever other dates its owner has logged.
C8_LogSuppression ==
    [][lastRun'.task = "log" =>
        \A r \in Rids :
            /\ (reminders[r].reminder_type = "log" /\ OwnerLoggedYesterday(r)) =>
                  /\ lastRun'.disp[r] = "none"
                  /\ reminders'[r].last_sent = reminders[r].last_sent
            /\ ( /\ reminders[r].reminder_type = "log"
                 /\ reminders[r].is_active
                 /\ TimeMatches(r)
                 /\ NotificationsOn(Owner(r))
                 /\ ~OwnerLoggedYesterday(r)
                 /\ lastRun'.status = "returned" ) =>
                  lastRun'.disp[r] # "none"]_vars

\* A log run in which reminder 1 was due with notifications enabled and was
\* suppressed by its owner's session of yesterday, while reminder 2, whose owner
\* has no such session, was sent.
C8_Witness ==
    /\ lastRun.task = "log"
    /\ reminders[1].reminder_type = "log"
    /\ reminders[1].is_active
    /\ TimeMatches(1)
    /\ NotificationsOn(Owner(1))
    /\ OwnerLoggedYesterday(1)
    /\ lastRun.disp[1] = "none"
    /\ lastRun.disp[2] = "sent"

\* C12: a run dispatches nothing for a reminder whose last_sent is already the
\* instant of the current tick, so that a task that runs twice within one minute
\* sends each due reminder once.
C12_OncePerTick ==
    [][\A r \in Rids :
          reminders[r].last_sent = Some(now) => lastRun'.disp[r] = "none"]_vars

\* Reminder r is due for a run of the task of its kind now: active, set to this
\* hour and minute, its owner has notifications enabled and, for kind 'log', no
\* session of yesterday.
Due(r) ==
    /\ reminders[r].is_active
    /\ TimeMatches(r)
    /\ NotificationsOn(Owner(r))
    /\ reminders[r].reminder_type = "log" => ~OwnerLoggedYesterday(r)

\* C18: every run of a reminder task dispatches each reminder of its kind that
\* is due, whatever its last_sent is, and dispatches it once.
C18_AlwaysCandidate ==
    [][\A r \in Rids :
          (lastRun'.task = reminders[r].reminder_type /\ Due(r)) =>
              lastRun'.disp[r] # "none"]_vars

\* C19: for every kind of reminder, every outcome of the dispatcher and any two
\* orders in which the query returns the due reminders, a run leaves the same
\* last_sent and the same dispatch for every reminder, and it dispatches every
\* due reminder whatever happened to the others.
C19_Independent ==
    \A kind \in ReminderTypes :
    \A sent \in [ReminderFilter(kind) -> {0, 1}] :
    \A ord1, ord2 \in Orders(ReminderFilter(kind)) :
        LET run1 == ReminderLoop(kind, StartRun, ord1, sent)
            run2 == ReminderLoop(kind, StartRun, ord2, sent)
        IN  /\ run1.rem = run2.rem
            /\ run1.disp = run2.disp
            /\ \A r \in ReminderFilter(kind) : Due(r) => run1.disp[r] # "none"

----------------------------------------------------------------------------
(* Properties of the statistics tasks *)

\* The window and the anchor date of the task run of the last step.
RunLo == WindowLo(statRun.task, DateOf(now))
RunHi == WindowHi(statRun.task, DateOf(now))

\* The sessions of u whose sleep_time is on one of the days lo..hi.
SessionsOf(u, lo, hi) ==
    {s \in Sids : /\ sessions[s] # None
                  /\ Val(sessions[s]).user = u
                  /\ DateOf(Val(sessions[s]).sleep_time) \in lo..hi}

\* The sum of the durations of the sessions S, a missing duration counting 0.
RECURSIVE TotalOf(_)
TotalOf(S) ==
    IF S = {} THEN 0
    ELSE LET s == CHOOSE x \in S : TRUE
             d == Val(sessions[s]).duration_hours
         IN  (IF d = None THEN 0 ELSE Val(d)) + TotalOf(S \ {s})

Abs(x) == IF x < 0 THEN -x ELSE x

RowsOf(tbl, u, date, period) ==
    {i \in DOMAIN tbl : tbl[i].user = u /\ tbl[i].date = date /\ tbl[i].period_type = period}

\* C4: a run of calculate_daily_statistics that directly follows another one, on
\* the same day and with the same sessions, leaves every row of the table as the
\* first run left it, and there is exactly one daily row of yesterday for every
\* owner with a session of yesterday.
C4_DailyIdempotent ==
    [][(statRun'.task = "daily" /\ statRun'.again) =>
          /\ stats' = stats
          /\ \A u \in Users :
                SessionsOf(u, DateOf(now) - 1, DateOf(now) - 1) # {} =>
                    Cardinality(RowsOf(stats', u, DateOf(now) - 1, "daily")) = 1]_vars

\* A second daily run in a row, over a row that aggregates two sessions.
C4_Witness ==
    /\ statRun.task = "daily"
    /\ statRun.again
    /\ \E i \in DOMAIN stats : /\ stats[i].period_type = "daily"
                              /\ stats[i].date = DateOf(now) - 1
                              /\ stats[i].sessions_count = 2

\* C10: after a run of a statistics task, for every owner with n >= 1 sessions in
\* the window there is a row with the window's key whose sessions_count is n,
\* whose total is the sum of the durations (a missing duration counting 0) and
\* whose average is total / n to the nearest hundredth.
C10_RowValues ==
    (statRun.task # "none" /\ statRun.status = "returned") =>
        \A u \in Users :
            LET S == SessionsOf(u, RunLo, RunHi)
                n == Cardinality(S)
            IN  n >= 1 =>
                  \E i \in RowsOf(stats, u, RunLo, statRun.task) :
                      /\ stats[i].sessions_count = n
                      /\ stats[i].total_sleep_hours = TotalOf(S)
                      /\ 2 * Abs(n * stats[i].average_sleep_hours - TotalOf(S)) <= n

\* A run over the sessions of 7.5, 8.0 and 6.5 hours of one owner: the row has
\* the average 7.33 and the count 3.
C10_Witness ==
    /\ statRun.task = "daily"
    /\ \E i \in DOMAIN stats :
          /\ stats[i].date = DateOf(now) - 1
          /\ stats[i].period_type = "daily"
          /\ stats[i].sessions_count = 3
          /\ stats[i].total_sleep_hours = 750 + 800 + 650
          /\ stats[i].average_sleep_hours = 733

\* An owner's window holds a session without duration next to one with a duration.
C10_MissingDurationReached ==
    /\ statRun.task = "weekly"
    /\ \E i \in DOMAIN stats :
          /\ stats[i].period_type = "weekly"
          /\ stats[i].sessions_count = 2
          /\ stats[i].total_sleep_hours = 800
          /\ stats[i].average_sleep_hours = 400

\* The sessions of S that have a rating, and the sum of their ratings.
RatedOf(S) == {s \in S : Val(sessions[s]).quality_rating # None}

RECURSIVE RatingSum(_)
RatingSum(S) ==
    IF S = {} THEN 0
    ELSE LET s == CHOOSE x \in S : TRUE
         IN  Val(Val(sessions[s]).quality_rating) + RatingSum(S \ {s})

\* C11: after a run of a statistics task, the row of every owner with sessions in
\* the window has a null average_quality when none of these sessions has a
\* rating, and otherwise the mean of the ratings of the rated sessions only, to
\* the nearest hundredth; this also when the row existed with another value.
C11_AverageQuality ==
    (statRun.task # "none" /\ statRun.status = "returned") =>
        \A u \in Users :
            LET S == SessionsOf(u, RunLo, RunHi)
                k == Cardinality(RatedOf(S))
            IN  S # {} =>
                  \E i \in RowsOf(stats, u, RunLo, statRun.task) :
                      IF k = 0 THEN stats[i].average_quality = None
                      ELSE /\ stats[i].average_quality # None
                           /\ 2 * Abs(k * Val(stats[i].average_quality)
                                        - 100 * RatingSum(RatedOf(S))) <= k

\* A run found a row with an average_quality, over a window whose sessions have
\* no rating any more, and left the row with a null average_quality.
C11_Witness ==
    /\ statRun.task # "none"
    /\ \E i \in DOMAIN stats :
          /\ i \in DOMAIN statRun.before
          /\ statRun.before[i].average_quality # None
          /\ stats[i].average_quality = None
          /\ stats[i].sessions_count >= 1

\* A run over a rated and an unrated session of one owner: the average_quality
\* is the one rating.
C11_UnratedExcludedReached ==
    /\ statRun.task = "daily"
    /\ \E i \in DOMAIN stats :
          /\ stats[i].period_type = "daily"
          /\ stats[i].sessions_count = 2
          /\ stats[i].average_quality = Some(500)

\* C16: a run of a statistics task returns, and for an owner without a session
\* in the window it adds no row and leaves every row of that owner as it was.
C16_EmptyWindowSkipped ==
    [][statRun'.task # "none" =>
          /\ statRun'.status = "returned"
          /\ \A u \in Users :
                SessionsOf(u, WindowLo(statRun'.task, DateOf(now)),
                              WindowHi(statRun'.task, DateOf(now))) = {} =>
                    \A i \in DOMAIN stats' :
                        stats'[i].user = u => (i \in DOMAIN stats /\ stats'[i] = stats[i])]_vars

\* A daily run that wrote a new row for one owner, while the other owner, who
\* has a row of an earlier day, has no session of yesterday and no row for it.
C16_Witness ==
    /\ statRun.task = "daily"
    /\ statRun.status = "returned"
    /\ Len(stats) > Len(statRun.before)
    /\ \E u \in Users :
          /\ SessionsOf(u, DateOf(now) - 1, DateOf(now) - 1) = {}
          /\ RowsOf(stats, u, DateOf(now) - 1, "daily") = {}
          /\ \E i \in DOMAIN statRun.before : statRun.before[i].user = u

\* C17: every weekly row has an anchor date that is a Monday, and a row that a
\* run of calculate_weekly_statistics adds or changes is anchored on the Monday
\* of the week of the run date: the one Monday among the run date and the six
\* days before it.
C17_MondayAnchor ==
    [][/\ \A i \in DOMAIN stats' :
            stats'[i].period_type = "weekly" => stats'[i].date % 7 = 0
       /\ statRun'.task = "weekly" =>
            \A i \in DOMAIN stats' :
                (i \notin DOMAIN stats \/ stats'[i] # stats[i]) =>
                    /\ stats'[i].period_type = "weekly"
                    /\ stats'[i].date % 7 = 0
                    /\ stats'[i].date <= DateOf(now)
                    /\ DateOf(now) <= stats'[i].date + 6]_vars

\* A weekly run on the Thursday of the second week changed the row that an
\* earlier run of that week had written: its anchor is the Monday, day 7.
C17_Witness ==
    /\ statRun.task = "weekly"
    /\ DateOf(now) = 10
    /\ \E i \in DOMAIN statRun.before :
          /\ statRun.before[i].date = 7
          /\ stats[i].date = 7
          /\ stats[i].period_type = "weekly"
          /\ stats[i].sessions_count = 2
          /\ statRun.before[i].sessions_count = 1

\* Row `new` is row `old` but for the four aggregated columns.
SameButAggregates(old, new) ==
    [new EXCEPT !.total_sleep_hours = old.total_sleep_hours,
                !.average_sleep_hours = old.average_sleep_hours,
                !.average_quality = old.average_quality,
                !.sessions_count = old.sessions_count] = old

RowMatches(row, S) ==
    LET n == Cardinality(S)
        k == Cardinality(RatedOf(S))
    IN  /\ row.sessions_count = n
        /\ row.total_sleep_hours = TotalOf(S)
        /\ 2 * Abs(n * row.average_sleep_hours - TotalOf(S)) <= n
        /\ IF k = 0 THEN row.average_quality = None
           ELSE /\ row.average_quality # None
                /\ 2 * Abs(k * Val(row.average_quality) - 100 * RatingSum(RatedOf(S))) <= k

\* The last step was a complete run of the task of which a run had stopped
\* part-way before, for the same window.
Recovered ==
    /\ workers[Stopper].pc = "stopped"
    /\ workers[Stopper].today = DateOf(now)
    /\ statRun.task = workers[Stopper].task
    /\ statRun.status = "returned"

\* C21: after a run that stopped part-way and a complete re-run, every
\* row of the window and period kind is the aggregate of the sessions its owner
\* has in the window now.
C21_RerunEqualsSingleRun ==
    Recovered =>
        \A i \in DOMAIN stats :
            (stats[i].period_type = statRun.task /\ stats[i].date = RunLo) =>
                /\ SessionsOf(stats[i].user, RunLo, RunHi) # {}
                /\ RowMatches(stats[i], SessionsOf(stats[i].user, RunLo, RunHi))

\* What the re-run does establish: after a run that stopped part-way and a
\* complete re-run, every owner with a session in the window now has one row of the window and period
\* kind, the aggregate of these sessions; the row of an owner who has no session
\* left in the window is as the re-run found it.
RerunRecovers ==
    Recovered =>
        \A u \in Users :
            LET S == SessionsOf(u, RunLo, RunHi)
                rows == RowsOf(stats, u, RunLo, statRun.task)
            IN  IF S # {}
                THEN /\ Cardinality(rows) = 1
                     /\ \A i \in rows : RowMatches(stats[i], S)
                ELSE \A i \in rows :
                        i \in DOMAIN statRun.before /\ stats[i] = statRun.before[i]

\* The re-run wrote the row that the stopped run had not reached, and changed
\* the row that the stopped run had written, whose owner logged a session since.
RerunRecoversReached ==
    /\ Recovered
    /\ Len(stats) > Len(statRun.before)
    /\ \E i \in DOMAIN statRun.before :
          /\ stats[i].sessions_count = 2
          /\ statRun.before[i].sessions_count = 1

\* The Monday of the week of day d (day 0 is a Monday).
MondayOf(d) == d - (d % 7)

\* The sessions of u that started on one of the days first..last.
StartedIn(u, first, last) ==
    {s \in Sids : /\ sessions[s] # None
                  /\ Val(sessions[s]).user = u
                  /\ first * MinutesPerDay <= Val(sessions[s]).sleep_time
                  /\ Val(sessions[s]).sleep_time < (last + 1) * MinutesPerDay}

C23_PreviousMonday ==
    /\ \A d \in 0..MaxWeekDay :
          LET a == ReportStart(d) IN
          /\ a % 7 = 0
          /\ a = MondayOf(d) - 7
          /\ a # MondayOf(d)
          /\ \A e \in a..(a + 6) : WeekStart(e) = a
    /\ reportRun.status # "none" =>
          /\ reportRun.week_start = MondayOf(reportRun.today) - 7
          /\ \A i \in DOMAIN stats :
                ( /\ stats[i].period_type = "weekly"
                  /\ reportRun.week_start <= stats[i].date
                  /\ stats[i].date < MondayOf(reportRun.today) ) =>
                      stats[i].date = reportRun.week_start

\* A run on the Monday of the second week handed over a report from the row
\* that calculate_weekly_statistics anchored on day 0 on the Sunday before.
C23_Witness ==
    /\ reportRun.status = "returned"
    /\ reportRun.today = 7
    /\ reportRun.week_start = 0
    /\ \E i \in DOMAIN stats :
          /\ stats[i].period_type = "weekly"
          /\ stats[i].date = 0
          /\ reportRun.reports[stats[i].user] # None
          /\ Val(reportRun.reports[stats[i].user]).sessions = stats[i].sessions_count

\* C24: every report a run of send_weekly_reports hands to the dispatcher for a
\* user carries the values of the weekly row of that user for the week the run
\* reads.
C24_OwnRowOnly ==
    [][reportRun' # reportRun =>
          \A u \in Users :
              reportRun'.reports[u] # None =>
                  \E i \in DOMAIN stats :
                      /\ stats[i].user = u
                      /\ stats[i].period_type = "weekly"
                      /\ stats[i].date = reportRun'.week_start
                      /\ Val(reportRun'.reports[u]).avg_hours = stats[i].average_sleep_hours
                      /\ Val(reportRun'.reports[u]).sessions = stats[i].sessions_count
                      /\ (stats[i].average_quality # None =>
                            Val(reportRun'.reports[u]).avg_quality
                                = Val(stats[i].average_quality))]_vars

\* No two rows of the table have the same (user, date, period_type).
UniqueKeys(tbl) ==
    \A i, j \in DOMAIN tbl :
        (tbl[i].user = tbl[j].user /\ tbl[i].date = tbl[j].date
            /\ tbl[i].period_type = tbl[j].period_type) => i = j

\* C5: whatever the interleaving of the lookups and inserts of two statistics
\* tasks, the table never holds two rows with the same (owner, date, period
\* kind), and every upsert leaves the one row of its key with the values of the
\* task that wrote last.
C5_OneRowPerKey ==
    [][/\ UniqueKeys(stats')
       /\ \A w \in Workers :
            (workers'[w].wrote # workers[w].wrote /\ workers'[w].wrote # None) =>
                LET e == Val(workers'[w].wrote)
                    rows == RowsOf(stats', e.user, e.date, e.period_type)
                IN  /\ Cardinality(rows) = 1
                    /\ \A i \in rows :
                          /\ stats'[i].total_sleep_hours = e.defaults.total_sleep_hours
                          /\ stats'[i].average_sleep_hours = e.defaults.average_sleep_hours
                          /\ stats'[i].average_quality = e.defaults.average_quality
                          /\ stats'[i].sessions_count = e.defaults.sessions_count]_vars

\* Two tasks raced for one key: both found no row, one inserted, and the insert
\* of the other, with other values, met the row of the first.
C5_Witness ==
    \E w, v \in Workers :
        /\ w # v
        /\ workers[w].wrote # None
        /\ workers[v].wrote # None
        /\ Val(workers[w].wrote).raced
        /\ Val(workers[w].wrote).user = Val(workers[v].wrote).user
        /\ Val(workers[w].wrote).date = Val(workers[v].wrote).date
        /\ Val(workers[w].wrote).period_type = Val(workers[v].wrote).period_type
        /\ Val(workers[w].wrote).defaults # Val(workers[v].wrote).defaults
        /\ \E i \in DOMAIN stats :
              /\ stats[i].user = Val(workers[w].wrote).user
              /\ stats[i].date = Val(workers[w].wrote).date
              /\ stats[i].period_type = Val(workers[w].wrote).period_type
              /\ stats[i].sessions_count = Val(workers[w].wrote).defaults.sessions_count

----------------------------------------------------------------------------
(* Properties of the calendar sync and of SleepSession.save *)

\* The remote events that were created for session s.
EventsOf(s) == {e \in remote : e.sid = s}

\* C6: a sync that finds the session unsynced and whose remote call succeeds
\* inserts one event, marks the session synced and stores the returned id; a sync
\* of a synced session inserts nothing, updates only the stored event id and
\* leaves the stored id as it is; every synced session has exactly one remote
\* event, the one whose id it stores.
C6_OneRemoteEvent ==
    /\ \A s \in Sids :
          (sessions[s] # None /\ Val(sessions[s]).synced_to_calendar) =>
              /\ Val(sessions[s]).calendar_event_id # None
              /\ {e.id : e \in EventsOf(s)} = {Val(Val(sessions[s]).calendar_event_id)}
              /\ Cardinality(EventsOf(s)) = 1
    /\ syncRun.before # None =>
          LET was == Val(syncRun.before)
              is == Val(sessions[syncRun.sid])
          IN  /\ was.synced_to_calendar =>
                    /\ syncRun.call.kind # "insert"
                    /\ syncRun.call.kind = "update" =>
                          syncRun.call.event_id = was.calendar_event_id
                    /\ is.synced_to_calendar
                    /\ is.calendar_event_id = was.calendar_event_id
              /\ (~was.synced_to_calendar /\ syncRun.call.kind = "insert"
                    /\ syncRun.failure = "none") =>
                    /\ syncRun.message = "Created calendar event"
                    /\ is.synced_to_calendar
                    /\ is.calendar_event_id = syncRun.event_id
                    /\ syncRun.event_id # None

\* A sync of a session that was synced before and was edited since: the update
\* succeeded, and the one event of the session carries the edited timestamps.
C6_Witness ==
    /\ syncRun.before # None
    /\ Val(syncRun.before).synced_to_calendar
    /\ syncRun.call.kind = "update"
    /\ syncRun.failure = "none"
    /\ Cardinality(EventsOf(syncRun.sid)) = 1
    /\ \E e \in EventsOf(syncRun.sid) :
          /\ e.start = Val(sessions[syncRun.sid]).sleep_time
          /\ e.end = At(1, 23, 50)

\* C13: a sync called with an id for which there is no session returns the
\* 'not found' result, makes no remote call and leaves the sessions, the
\* profiles and the remote events as they are.
C13_NotFoundIsNoOp ==
    [][(syncRun'.status # "none" /\ sessions[syncRun'.sid] = None) =>
          /\ syncRun'.status = "returned"
          /\ syncRun'.message = "Sleep session not found"
          /\ syncRun'.call = NoCall
          /\ remote' = remote
          /\ sessions' = sessions
          /\ profile' = profile]_vars

\* A sync of a session that was synced and then deleted: its remote event is
\* there, the row is not, and the result is 'not found'.
C13_Witness ==
    /\ syncRun.status = "returned"
    /\ syncRun.message = "Sleep session not found"
    /\ sessions[syncRun.sid] = None
    /\ EventsOf(syncRun.sid) # {}

SuccessMessages == {"Created calendar event", "Updated calendar event"}

\* C7: when the remote service is unavailable or the remote create or update
\* call fails, the task returns a result that is none of the success results,
\* and the session is as it was.
C7_FailureSignalled ==
    syncRun.failure = "remote" =>
        /\ syncRun.status = "returned"
        /\ syncRun.message \notin SuccessMessages
        /\ sessions[syncRun.sid] = syncRun.before

\* C15: however two syncs of one session interleave, at most one remote event is
\* created for the session, and once no sync is running a synced session stores
\* the id of that event.
C15_OneEventUnderRace ==
    \A s \in Sids :
        /\ Cardinality(EventsOf(s)) <= 1
        /\ ( /\ \A w \in Workers : syncers[w].pc = "idle"
             /\ sessions[s] # None
             /\ Val(sessions[s]).synced_to_calendar ) =>
                {e.id : e \in EventsOf(s)} = {Val(Val(sessions[s]).calendar_event_id)}

\* C25: the save at the end of a sync changes calendar_event_id and
\* synced_to_calendar of the session only: the timestamps, the rating and the
\* duration stay those that are stored when the task saves, also when the
\* session was edited after the task had read it.
C25_WriteBackKeepsEdits ==
    [][\A w \in Workers :
          (syncers[w].pc = "save" /\ syncers'[w].pc = "idle") =>
              LET was == Val(sessions[syncers[w].sid])
                  is == Val(sessions'[syncers[w].sid])
              IN  /\ is.sleep_time = was.sleep_time
                  /\ is.wake_time = was.wake_time
                  /\ is.quality_rating = was.quality_rating
                  /\ is.duration_hours = was.duration_hours]_vars

\* C26: whatever sync runs succeed or fail, one after the other, a session is
\* marked synced exactly if it stores an event id, and an event id that is
\* stored is neither replaced nor cleared.
C26_FlagIffEventId ==
    [][\A s \in Sids :
          sessions'[s] # None =>
              /\ Val(sessions'[s]).synced_to_calendar
                    <=> Val(sessions'[s]).calendar_event_id # None
              /\ (sessions[s] # None /\ Val(sessions[s]).calendar_event_id # None) =>
                    Val(sessions'[s]).calendar_event_id
                        = Val(sessions[s]).calendar_event_id]_vars

\* A sync of a synced session whose remote update failed: the session is still
\* marked synced and stores the id it stored before.
C26_Witness ==
    /\ syncRun.before # None
    /\ Val(syncRun.before).calendar_event_id # None
    /\ syncRun.call.kind = "update"
    /\ syncRun.failure = "remote"
    /\ sessions[syncRun.sid] # None
    /\ Val(sessions[syncRun.sid]).synced_to_calendar
    /\ Val(sessions[syncRun.sid]).calendar_event_id = Val(syncRun.before).calendar_event_id

\* The results the task returns when the remote service is unavailable or the
\* remote call fails.
RemoteFailureMessages ==
    {"Failed to sync to calendar", "Updated calendar event", "Error syncing to calendar"}

\* C14: a sync whose owner has no usable stored credential returns, with a
\* result that is none of the results of a failed remote call, after no remote
\* call and with the session as it was; it does not wait for the user.
C14_Unauthenticated ==
    syncRun.failure = "auth" =>
        /\ syncRun.status = "returned"
        /\ syncRun.message \notin RemoteFailureMessages
        /\ syncRun.call = NoCall
        /\ sessions[syncRun.sid] = syncRun.before

\* C9: every stored session has a duration, the difference of its wake_time and
\* its sleep_time in hours to the nearest hundredth, also when the caller passed
\* a duration and when wake_time is not after sleep_time.
C9_DurationFromTimestamps ==
    \A s \in Sids :
        sessions[s] # None =>
            LET row == Val(sessions[s]) IN
            /\ row.duration_hours # None
            /\ 2 * Abs(60 * Val(row.duration_hours) - 100 * (row.wake_time - row.sleep_time))
                  <= 60

\* A session saved with a wake_time 30 minutes before its sleep_time, after the
\* sync task saved it as well: its duration is -0.5.
C9_Witness ==
    \E s \in Sids :
        /\ sessions[s] # None
        /\ Val(sessions[s]).wake_time < Val(sessions[s]).sleep_time
        /\ Val(sessions[s]).duration_hours = Some(-50)
        /\ Val(sessions[s]).synced_to_calendar

====
